---- MODULE Spec2Model ----
(***************************************************************************)
(* A model of util/transaction_test_util.cc: RandomTransactionInserter,    *)
(* the randomized read-modify-write generator (DBInsert,                   *)
(* TransactionDBInsert, OptimisticTransactionDBInsert,                     *)
(* TOTransactionDBInsert, TOTransactionDBWriteRandom) and its verifier     *)
(* (Verify).                                                               *)
(*                                                                         *)
(* Keys and values are the texts the code stores: a key is the 4-digit     *)
(* prefix of set+1 followed by the decimal of the key number, a value is   *)
(* the decimal of a counter, written by ToString and read by std::stoull.  *)
(* A text is a sequence of one-character strings.                          *)
(*                                                                         *)
(* The storage engine (DB, Transaction, TOTransaction) is not part of the  *)
(* file: its operations are modelled from the contract the harness needs   *)
(* from it (atomic commit, read-your-own-writes, key locks, snapshot       *)
(* reads), and may fail with any status where a specification injects      *)
(* faults.                                                                 *)
(***************************************************************************)
EXTENDS Integers, Sequences, FiniteSets

VARIABLES
    asserts,      \* the build: TRUE when assert() is compiled in (no NDEBUG)
    faulty,       \* whether the backend may return statuses other than OK
    txn_options,  \* the caller's TransactionOptions: [set_snapshot]
    crashed,      \* "no", "assert" (abort), "exception" (uncaught throw), "hang"
    db,           \* the committed key space: physical key -> value text
    db_snapshots, \* snapshots taken by db->GetSnapshot() and not released
    g,            \* per generator thread: the inserter and its call in progress
    txns,         \* per generator thread: the handles txn_, optimistic_txn_, to_txn_
    v,            \* the Verify call in progress or last returned
    keyed         \* the physical keys that calls of DBGet have built, in order

vars == <<asserts, faulty, txn_options, crashed, db, db_snapshots, g, txns, v, keyed>>

----------------------------------------------------------------------------
(* Bounds of the model. *)

\* num_sets_ of the inserter and num_sets of Verify
NumSets == 2
\* num_keys_ of the inserter: keys are drawn from [0, num_keys_)
NumKeys == 2
\* incr is drawn from [1, MaxIncr] (the code draws from [1, 100])
MaxIncr == 2
\* generator calls per inserter in one behaviour
MaxCalls == 2
\* calls per inserter where inserters run concurrently, or beside Verify
MaxConcCalls == 1
\* Verify calls in one behaviour
MaxVerify == 1
\* width of the unsigned counters: uint64_t in the code, scaled down here
WordBits == 5

Gens == {"g1", "g2"}

Wrap == 2 ^ WordBits
ULONG_MAX == Wrap - 1

Sets == 0 .. (NumSets - 1)
Keys == 0 .. (NumKeys - 1)

----------------------------------------------------------------------------
(* Texts: ToString, snprintf("%.4u"), std::stoull, key order. *)

Digits == <<"0", "1", "2", "3", "4", "5", "6", "7", "8", "9">>

IsDigit(c) == \E i \in 1..10 : Digits[i] = c

DigitVal(c) == (CHOOSE i \in 1..10 : Digits[i] = c) - 1

\* a byte that is no digit: what a value that is not a counter starts with
Garbage == <<"x">>

RECURSIVE ToString(_)
ToString(n) ==
    IF n < 10 THEN <<Digits[n + 1]>>
    ELSE ToString(n \div 10) \o <<Digits[(n % 10) + 1]>>

RECURSIVE Zeros(_)
Zeros(n) == IF n <= 0 THEN <<>> ELSE <<"0">> \o Zeros(n - 1)

\* a prefix printed without its padding
PrefixUnpadded(set_i) == ToString(set_i + 1)

\* snprintf(prefix_buf, sizeof(prefix_buf), "%.4u", set_i + 1): at least 4
\* digits, zero padded; 5 digits still fit the 6-byte buffer
Prefix(set_i) ==
    LET d == ToString(set_i + 1)
    IN  Zeros(4 - Len(d)) \o d

\* key format: [SET#][random#]
FullKey(set_i, ikey) == Prefix(set_i) \o ToString(ikey)

\* std::stoull: the number the digits spell, after white space and a sign;
\* -1 when it throws (std::invalid_argument without a digit there,
\* std::out_of_range above the largest unsigned value)
RECURSIVE StoullFrom(_, _, _)
StoullFrom(text, i, acc) ==
    IF i > Len(text) \/ ~IsDigit(text[i]) THEN acc
    ELSE LET n == acc * 10 + DigitVal(text[i])
         IN  IF n > ULONG_MAX THEN -1 ELSE StoullFrom(text, i + 1, n)

\* isspace: the blank, \t, \n, \v (written as its byte, 0x0B), \f and \r
IsSpace(c) == c \in {" ", "\t", "\n", "", "\f", "\r"}

\* the first position at or after i that holds no white space
RECURSIVE SkipSpace(_, _)
SkipSpace(text, i) ==
    IF i <= Len(text) /\ IsSpace(text[i]) THEN SkipSpace(text, i + 1) ELSE i

\* leading white space is skipped and one sign accepted; a "-" negates the
\* number in unsigned arithmetic ("-1" is the largest value)
Stoull(text) ==
    LET i == SkipSpace(text, 1)
        signed == i <= Len(text) /\ text[i] \in {"+", "-"}
        j == IF signed THEN i + 1 ELSE i
    IN  IF j > Len(text) \/ ~IsDigit(text[j]) THEN -1
        ELSE LET n == StoullFrom(text, j, 0)
             IN  IF n = -1 THEN -1
                 ELSE IF signed /\ text[i] = "-" THEN (Wrap - n) % Wrap
                 ELSE n

\* uint64_t addition
Add64(a, b) == (a + b) % Wrap

\* the bytewise order of the default comparator, on texts of digits
RECURSIVE KeyLess(_, _)
KeyLess(a, b) ==
    IF Len(b) = 0 THEN FALSE
    ELSE IF Len(a) = 0 THEN TRUE
    ELSE IF a[1] # b[1] THEN DigitVal(a[1]) < DigitVal(b[1])
    ELSE KeyLess(Tail(a), Tail(b))

\* a value the generator never writes: 0 or the maximum sentinel
IsInvalidValue(int_value) == int_value = 0 \/ int_value = ULONG_MAX

----------------------------------------------------------------------------
(* Statuses. *)

\* the statuses a fault is drawn from: two conflicts, one that Put's test
\* names (Busy, like TimedOut) and one it does not (TryAgain), Expired, and
\* one that is none of these
ErrStatuses == {"Busy", "TryAgain", "Expired", "IOError"}

\* the statuses a specification with faults lets an operation fail with
Faults == IF faulty THEN ErrStatuses ELSE {}

\* s.IsBusy() || s.IsTimedOut() || s.IsTryAgain()
IsConflict(s) == s \in {"Busy", "TimedOut", "TryAgain"}

----------------------------------------------------------------------------
(* The storage engine, from the contract the harness requires of it. *)

EmptyMap == <<>>

\* in a write batch: the entry of a Delete
Tombstone == <<"~">>

PutKV(f, k, val) == [x \in (DOMAIN f) \cup {k} |-> IF x = k THEN val ELSE f[x]]

\* a write batch applied atomically to a key space
ApplyBatch(f, wb) ==
    LET live == {k \in (DOMAIN f) \cup (DOMAIN wb) :
                    IF k \in DOMAIN wb THEN wb[k] # Tombstone ELSE TRUE}
    IN  [k \in live |-> IF k \in DOMAIN wb THEN wb[k] ELSE f[k]]

\* a snapshot handle: <<>> is nullptr, <<f>> the key space f frozen
NoSnapshot == <<>>
SnapshotOf(f) == <<f>>

\* what a read with these ReadOptions sees: the snapshot, else the latest
ReadView(snapshot) == IF snapshot = NoSnapshot THEN db ELSE snapshot[1]

\* a handle that points to no transaction
NullTxn ==
    [live |-> FALSE, open |-> FALSE, wb |-> EmptyMap, locks |-> {}, snap |-> NoSnapshot]

\* BeginTransaction: a fresh transaction; an old handle passed in is
\* reinitialized (its writes and locks dropped); set_snapshot takes a snapshot
BeginTransaction(set_snapshot) ==
    [live |-> TRUE, open |-> TRUE, wb |-> EmptyMap, locks |-> {},
     snap |-> IF set_snapshot THEN SnapshotOf(db) ELSE NoSnapshot]

\* a transaction after Commit or Rollback returned OK
Ended(txn) ==
    [txn EXCEPT !.open = FALSE, !.wb = EmptyMap, !.locks = {}, !.snap = NoSnapshot]

\* a transaction the call has left without ending it: it stays open and
\* keeps its locks; its batch and snapshot are not read again
\* (BeginTransaction reinitializes the handle, the destructor deletes it)
LeftOpen(txn) == [txn EXCEPT !.wb = EmptyMap, !.snap = NoSnapshot]

\* Transaction::SetSnapshot
SetSnapshot(txn) == [txn EXCEPT !.snap = SnapshotOf(db)]

LockedByOther(t, key) == \E u \in Gens \ {t} : key \in txns[u].txn_.locks

\* whether key was committed to since the snapshot
ChangedSince(snapshot, key) ==
    LET old == snapshot[1]
    IN  IF key \in DOMAIN old
        THEN ~(key \in DOMAIN db /\ db[key] = old[key])
        ELSE key \in DOMAIN db

\* the pessimistic transaction's lock on a key: times out when another
\* transaction holds it, is refused (Busy) when the transaction has a
\* snapshot and the key was committed to since
TryLock(t, txn, key, locking) ==
    IF ~locking \/ key \in txn.locks THEN [s |-> "OK", txn |-> txn]
    ELSE IF LockedByOther(t, key) THEN [s |-> "TimedOut", txn |-> txn]
    ELSE IF txn.snap # NoSnapshot /\ ChangedSince(txn.snap, key)
         THEN [s |-> "Busy", txn |-> txn]
    ELSE [s |-> "OK", txn |-> [txn EXCEPT !.locks = @ \cup {key}]]

\* a read through a write batch and a view of the key space
ReadThrough(wb, view, key) ==
    IF key \in DOMAIN wb
    THEN IF wb[key] = Tombstone THEN [s |-> "NotFound", value |-> <<>>]
         ELSE [s |-> "OK", value |-> wb[key]]
    ELSE IF key \in DOMAIN view THEN [s |-> "OK", value |-> view[key]]
    ELSE [s |-> "NotFound", value |-> <<>>]

\* Transaction::Get / GetForUpdate (locking: the pessimistic transaction);
\* the outcomes: the read's, or a fault
TxnGetOutcomes(t, txn, snapshot, key, get_for_update, locking) ==
    LET l == TryLock(t, txn, key, locking /\ get_for_update)
        r == ReadThrough(txn.wb, ReadView(snapshot), key)
    IN  { IF l.s = "OK"
          THEN [s |-> r.s, value |-> r.value, txn |-> l.txn]
          ELSE [s |-> l.s, value |-> <<>>, txn |-> txn] }
        \cup { [s |-> e, value |-> <<>>, txn |-> txn] : e \in Faults }

\* Transaction::Put / Delete (value = Tombstone)
TxnPutOutcomes(t, txn, key, value, locking) ==
    LET l == TryLock(t, txn, key, locking)
    IN  { IF l.s = "OK"
          THEN [s |-> "OK", txn |-> [l.txn EXCEPT !.wb = PutKV(@, key, value)]]
          ELSE [s |-> l.s, txn |-> txn] }
        \cup { [s |-> e, txn |-> txn] : e \in Faults }

\* Transaction::Prepare, SetReadTimeStamp, SetCommitTimeStamp: no effect on the key space
TxnStatusOutcomes == {"OK"} \cup Faults

\* Transaction::Commit: the batch becomes visible atomically, or nothing does
TxnCommitOutcomes(txn) ==
    { [s |-> "OK", db |-> ApplyBatch(db, txn.wb),
       txn |-> Ended(txn)] }
    \cup { [s |-> e, db |-> db, txn |-> txn] : e \in Faults }

\* Transaction::Rollback: the batch and the locks are dropped
TxnRollbackOutcomes(txn) ==
    { [s |-> "OK",
       txn |-> Ended(txn)] }
    \cup { [s |-> e, txn |-> txn] : e \in Faults }

\* DB::Get
DbGetOutcomes(snapshot, key) ==
    LET r == ReadThrough(EmptyMap, ReadView(snapshot), key)
    IN  { [s |-> r.s, value |-> r.value] }
        \cup { [s |-> e, value |-> <<>>] : e \in Faults }

\* DB::Write
DbWriteOutcomes(batch) ==
    { [s |-> "OK", db |-> ApplyBatch(db, batch)] }
    \cup { [s |-> e, db |-> db] : e \in Faults }

----------------------------------------------------------------------------
(* RandomTransactionInserter: the state of one inserter and of its call. *)

KindDB == "DBInsert"
KindTxn == "TransactionDBInsert"
KindOpt == "OptimisticTransactionDBInsert"
KindTO == "TOTransactionDBInsert"
KindWR == "TOTransactionDBWriteRandom"

InsertKinds == {KindDB, KindTxn, KindOpt, KindTO}

\* the handle a call works on; DBInsert has none (txn == nullptr)
HandleOf(kind) ==
    IF kind = KindTxn THEN "txn_"
    ELSE IF kind = KindOpt THEN "optimistic_txn_"
    ELSE "to_txn_"

\* the locals of a call, as they are before and after it; a local that is
\* not read again has the value it has here
NoCall ==
    [incr |-> 0, set_vec |-> <<>>, s |-> "OK", unexpected_error |-> FALSE,
     int_value |-> 0, full_key |-> <<>>, get_for_update |-> FALSE,
     batch |-> EmptyMap, take_snapshot |-> FALSE]

\* what the call in progress or last returned did (history, not program state):
\* read_err, put_err: the status of its failed read and of its latest failed
\* Put ("OK": none); put_gfu: whether the read before that Put was for update;
\* put_errs: how many of its Puts failed;
\* commit_s: what Commit (or Write) returned ("none": not called); ended: how
\* the transaction was ended; written: the keys it Put and pre: the key space
\* when it began, both kept until the transaction commits
NoHistory ==
    [read_err |-> "OK", put_err |-> "OK", put_gfu |-> FALSE, put_errs |-> 0,
     commit_s |-> "none", prepared |-> FALSE, ended |-> "none",
     written |-> {}, pre |-> EmptyMap]

InitGen ==
    [pc |-> "idle", kind |-> "none", loc |-> NoCall,
     read_options_snapshot |-> NoSnapshot,
     success_count_ |-> 0, failure_count_ |-> 0, last_status_ |-> "OK",
     ret |-> TRUE, calls |-> 0, hist |-> NoHistory]

InitTxns == [txn_ |-> NullTxn, optimistic_txn_ |-> NullTxn, to_txn_ |-> NullTxn]

\* the permutations of 0 .. n-1: what std::shuffle / std::random_shuffle of
\* the iota vector can yield
Perms(n) ==
    {p \in [1..n -> 0..(n - 1)] : \A i, j \in 1..n : i # j => p[i] # p[j]}

\* DoInsert's prologue: incr, unexpected_error, set_vec (lines 487-496, 395-405)
StartCall(incr, set_vec, take_snapshot) ==
    [NoCall EXCEPT !.incr = incr, !.set_vec = set_vec,
                   !.take_snapshot = take_snapshot]

StartHistory == [NoHistory EXCEPT !.pre = db]

\* the locals that are still read once the loop is left
AtFinish(c, s, unexpected_error) ==
    [NoCall EXCEPT !.s = s, !.unexpected_error = unexpected_error,
                   !.batch = c.batch, !.take_snapshot = c.take_snapshot]

\* the locals that are still read when an iteration begins
AtNextSet(c, rest, unexpected_error) ==
    [NoCall EXCEPT !.incr = c.incr, !.set_vec = rest,
                   !.unexpected_error = unexpected_error,
                   !.batch = c.batch, !.take_snapshot = c.take_snapshot]

\* the history when the call ends
EndHistory(hist, e) ==
    [hist EXCEPT !.commit_s = e.commit_s, !.prepared = e.prepared, !.ended = e.ended,
                 !.written = IF e.ended = "committed" THEN {} ELSE @,
                 !.pre = IF e.ended = "committed" THEN EmptyMap ELSE @]

----------------------------------------------------------------------------
(* The entry points. *)

DBInsert(t) ==
    /\ g[t].pc = "idle"
    /\ g[t].calls < MaxCalls
    /\ \E incr \in 1..MaxIncr, set_vec \in Perms(NumSets) :
          g' = [g EXCEPT ![t] = [@ EXCEPT !.pc = "get", !.kind = KindDB,
                                   !.loc = StartCall(incr, set_vec, FALSE),
                                   !.hist = StartHistory]]
    /\ UNCHANGED <<keyed, asserts, faulty, txn_options, crashed, db, db_snapshots, txns, v>>

\* BeginTransaction on the handle of the call before, and the draw of
\* take_snapshot; without a snapshot to take DoInsert's prologue follows
TransactionDBInsert(t) ==
    /\ g[t].pc = "idle"
    /\ g[t].calls < MaxCalls
    /\ \E incr \in 1..MaxIncr, set_vec \in Perms(NumSets), take_snapshot \in BOOLEAN :
          /\ txns' = [txns EXCEPT ![t].txn_ = BeginTransaction(txn_options.set_snapshot)]
          /\ g' = [g EXCEPT ![t] =
                     [@ EXCEPT !.pc = IF take_snapshot THEN "snapshot" ELSE "get",
                               !.kind = KindTxn,
                               !.loc = IF take_snapshot
                                       THEN [NoCall EXCEPT !.take_snapshot = TRUE]
                                       ELSE StartCall(incr, set_vec, FALSE),
                               !.hist = StartHistory]]
    /\ UNCHANGED <<keyed, asserts, faulty, txn_options, crashed, db, db_snapshots, v>>

\* txn_->SetSnapshot() and read_options_.snapshot = txn_->GetSnapshot(), a
\* step of their own after BeginTransaction; then DoInsert's prologue
TransactionDBSetSnapshot(t) ==
    /\ g[t].pc = "snapshot"
    /\ \E incr \in 1..MaxIncr, set_vec \in Perms(NumSets) :
          LET txn == SetSnapshot(txns[t].txn_)
          IN  /\ txns' = [txns EXCEPT ![t].txn_ = txn]
              /\ g' = [g EXCEPT ![t] =
                         [@ EXCEPT !.pc = "get",
                                   !.loc = StartCall(incr, set_vec, TRUE),
                                   !.read_options_snapshot = txn.snap]]
    /\ UNCHANGED <<keyed, asserts, faulty, txn_options, crashed, db, db_snapshots, v>>

\* BeginTransaction with the caller's OptimisticTransactionOptions
OptimisticTransactionDBInsert(t) ==
    /\ g[t].pc = "idle"
    /\ g[t].calls < MaxCalls
    /\ \E incr \in 1..MaxIncr, set_vec \in Perms(NumSets), set_snapshot \in BOOLEAN :
          /\ txns' = [txns EXCEPT ![t].optimistic_txn_ = BeginTransaction(set_snapshot)]
          /\ g' = [g EXCEPT ![t] = [@ EXCEPT !.pc = "get", !.kind = KindOpt,
                                      !.loc = StartCall(incr, set_vec, FALSE),
                                      !.hist = StartHistory]]
    /\ UNCHANGED <<keyed, asserts, faulty, txn_options, crashed, db, db_snapshots, v>>

\* SetReadTimeStamp(UINT64_MAX) reads the latest committed state; its status
\* is only asserted
TOTransactionDBInsert(t) ==
    /\ g[t].pc = "idle"
    /\ g[t].calls < MaxCalls
    /\ \E incr \in 1..MaxIncr, set_vec \in Perms(NumSets), ts \in TxnStatusOutcomes :
          /\ txns' = [txns EXCEPT ![t].to_txn_ = BeginTransaction(FALSE)]
          /\ IF asserts /\ ts # "OK"
             THEN /\ crashed' = "assert"
                  /\ g' = [g EXCEPT ![t] = [@ EXCEPT !.pc = "crashed", !.kind = KindTO,
                                              !.hist = StartHistory]]
             ELSE /\ crashed' = crashed
                  /\ g' = [g EXCEPT ![t] = [@ EXCEPT !.pc = "get", !.kind = KindTO,
                                              !.loc = StartCall(incr, set_vec, FALSE),
                                              !.hist = StartHistory]]
    /\ UNCHANGED <<keyed, asserts, faulty, txn_options, db, db_snapshots, v>>

----------------------------------------------------------------------------
(* DBGet and the per-set loop of DoInsert. *)

\* DBGet after the read returned o = [s, value]: a value found is parsed and
\* rejected when it is 0 or the maximum; a key not found counts as 0; after
\* any other status, or when std::stoull throws, *int_value is as on entry
DBGet(o, int_value, unexpected_error) ==
    IF o.s = "OK"
    THEN LET n == Stoull(o.value)
         IN  IF n = -1
             THEN [s |-> "OK", int_value |-> int_value,
                   unexpected_error |-> unexpected_error, threw |-> TRUE]
             ELSE IF IsInvalidValue(n)
             THEN [s |-> "Corruption", int_value |-> n,
                   unexpected_error |-> TRUE, threw |-> FALSE]
             ELSE [s |-> "OK", int_value |-> n,
                   unexpected_error |-> unexpected_error, threw |-> FALSE]
    ELSE IF o.s = "NotFound"
    THEN [s |-> "OK", int_value |-> 0,
          unexpected_error |-> unexpected_error, threw |-> FALSE]
    ELSE [s |-> o.s, int_value |-> int_value,
          unexpected_error |-> unexpected_error, threw |-> FALSE]

\* whether a failed read is unexpected (lines 510, 418)
ReadUnexpected(is_optimistic, s) == is_optimistic \/ ~IsConflict(s)

\* whether a failed Put leaves the loop as an expected conflict (lines 523, 431)
PutBreaks(kind, get_for_update, s) ==
    IF kind = KindTO THEN s \in {"Busy", "TimedOut"}
    ELSE ~get_for_update /\ s \in {"Busy", "TimedOut"}

\* the sum without the value read
NewSumOfIncrAlone(int_value, incr) == ToString(incr)

\* std::string sum = ToString(int_value + incr)
NewSum(int_value, incr) == ToString(Add64(int_value, incr))

\* the read of one iteration: DBGet and the test of its status
DoInsertGet(t) ==
    LET c == g[t].loc
        kind == g[t].kind
        h == HandleOf(kind)
        set_i == Head(c.set_vec)
    IN
    /\ g[t].pc = "get"
    /\ kind \in InsertKinds
    /\ \E rand_key \in Keys,
          get_for_update \in (IF kind \in {KindTxn, KindOpt} THEN BOOLEAN ELSE {FALSE}) :
        LET key == FullKey(set_i, rand_key)
            outs == IF kind = KindDB
                    THEN { [s |-> o.s, value |-> o.value, txn |-> NullTxn] :
                             o \in DbGetOutcomes(g[t].read_options_snapshot, key) }
                    ELSE TxnGetOutcomes(t, txns[t][h], g[t].read_options_snapshot,
                                        key, get_for_update, kind = KindTxn)
        IN  \E o \in outs :
              LET r == DBGet(o, 0, c.unexpected_error)
                  unexpected == r.unexpected_error
                                \/ (r.s # "OK" /\ ReadUnexpected(kind = KindOpt, r.s))
              IN  /\ txns' = IF kind = KindDB THEN txns
                             ELSE [txns EXCEPT ![t][h] = o.txn]
                  /\ crashed' = IF r.threw THEN "exception" ELSE crashed
                  /\ g' = [g EXCEPT ![t] =
                       [@ EXCEPT
                          !.pc = IF r.threw THEN "crashed"
                                 ELSE IF r.s = "OK" THEN "put" ELSE "finish",
                          !.loc = IF r.s = "OK"
                                  THEN [c EXCEPT !.s = r.s, !.int_value = r.int_value,
                                                 !.full_key = key,
                                                 !.get_for_update = get_for_update,
                                                 !.unexpected_error = unexpected]
                                  ELSE AtFinish(c, r.s, unexpected),
                          !.hist = [@ EXCEPT !.read_err = r.s]]]
    /\ UNCHANGED <<keyed, asserts, faulty, txn_options, db, db_snapshots, v>>

\* the write of one iteration: Put in the transaction, or in the batch
DoInsertPut(t) ==
    LET c == g[t].loc
        kind == g[t].kind
        h == HandleOf(kind)
        sum == NewSum(c.int_value, c.incr)
        rest == Tail(c.set_vec)
    IN
    /\ g[t].pc = "put"
    /\ kind \in InsertKinds
    /\ IF kind = KindDB
       THEN /\ g' = [g EXCEPT ![t] =
                       [@ EXCEPT
                          !.pc = IF rest = <<>> THEN "finish" ELSE "get",
                          !.loc = LET b == [c EXCEPT !.batch = PutKV(@, c.full_key, sum)]
                                  IN  IF rest = <<>> THEN AtFinish(b, "OK", c.unexpected_error)
                                      ELSE AtNextSet(b, rest, c.unexpected_error),
                          !.hist = [@ EXCEPT !.written = @ \cup {c.full_key}]]]
            /\ txns' = txns
       ELSE \E o \in TxnPutOutcomes(t, txns[t][h], c.full_key, sum, kind = KindTxn) :
              LET brk == PutBreaks(kind, c.get_for_update, o.s)
              IN  /\ txns' = [txns EXCEPT ![t][h] = o.txn]
                  /\ g' = [g EXCEPT ![t] =
                       [@ EXCEPT
                          !.pc = IF brk \/ rest = <<>> THEN "finish" ELSE "get",
                          !.loc = LET unexpected == c.unexpected_error
                                                    \/ (~brk /\ o.s # "OK")
                                  IN  IF brk \/ rest = <<>>
                                      THEN AtFinish(c, o.s, unexpected)
                                      ELSE AtNextSet(c, rest, unexpected),
                          !.hist = [@ EXCEPT
                                     !.written = IF o.s = "OK" THEN @ \cup {c.full_key} ELSE @,
                                     !.put_err = IF o.s = "OK" THEN @ ELSE o.s,
                                     !.put_gfu = IF o.s = "OK" THEN @ ELSE c.get_for_update,
                                     !.put_errs = IF o.s = "OK" THEN @ ELSE @ + 1]]]
    /\ UNCHANGED <<keyed, asserts, faulty, txn_options, crashed, db, db_snapshots, v>>

----------------------------------------------------------------------------
(* The end of DoInsert: commit, rollback or write, the counters, the return. *)

\* whether a failed Commit is unexpected (lines 556-570)
CommitUnexpected(is_optimistic, s) ==
    IF is_optimistic THEN ~IsConflict(s) ELSE s # "Expired"

\* an end that calls Commit where Rollback was drawn
FinalizeAlwaysCommits(txn, commit) ==
    { [op |-> IF commit THEN "Commit" ELSE "Rollback", s |-> o.s, db |-> o.db,
       txn |-> o.txn] : o \in TxnCommitOutcomes(txn) }

\* the end of a transaction whose reads and writes succeeded: Commit, or the
\* deliberate Rollback
FinalizeOutcomes(txn, commit) ==
    IF commit
    THEN { [op |-> "Commit", s |-> o.s, db |-> o.db, txn |-> o.txn] :
             o \in TxnCommitOutcomes(txn) }
    ELSE { [op |-> "Rollback", s |-> r.s, db |-> db, txn |-> r.txn] :
             r \in TxnRollbackOutcomes(txn) }

EndedAs(o) ==
    IF o.op = "Rollback"
    THEN IF o.s = "OK" THEN "rolled_back" ELSE "rollback_failed"
    ELSE IF o.s = "OK" THEN "committed" ELSE "commit_failed"

\* DoInsert(DB*, Transaction*, bool) with a transaction, after a loop that
\* ended with s.ok(): Prepare (pessimistic, 9 in 10), then Commit (19 in 20)
\* or Rollback, the assertions, the classification of a failure
FinishTxnOk(txn, unexpected_error, is_optimistic) ==
    UNION {
      { LET prepare_died == prepare /\ asserts /\ ps # "OK"
            died == prepare_died
                    \/ (asserts /\ o.op = "Rollback" /\ o.s # "OK")
                    \/ (asserts /\ ~is_optimistic /\ o.s # "OK")
        IN  IF prepare_died
            THEN [s |-> ps, unexpected_error |-> unexpected_error, db |-> db,
                  txn |-> txn, crash |-> TRUE, commit_s |-> "none",
                  prepared |-> TRUE, ended |-> "none"]
            ELSE [s |-> o.s,
                  unexpected_error |->
                      unexpected_error
                      \/ (o.s # "OK" /\ CommitUnexpected(is_optimistic, o.s)),
                  db |-> o.db, txn |-> o.txn, crash |-> died,
                  commit_s |-> IF o.op = "Commit" THEN o.s ELSE "none",
                  prepared |-> prepare, ended |-> EndedAs(o)] :
        o \in FinalizeOutcomes(txn, commit) } :
      prepare \in (IF is_optimistic THEN {FALSE} ELSE BOOLEAN),
      ps \in TxnStatusOutcomes,
      commit \in BOOLEAN }

\* DoInsert(DB*, TOTransaction*) after a loop that ended with s.ok():
\* SetCommitTimeStamp (its status is overwritten), Commit or Rollback, and
\* the assertion that either succeeded; no status is classified
FinishTOOk(txn, unexpected_error) ==
    UNION {
      { [s |-> o.s, unexpected_error |-> unexpected_error,
         db |-> o.db, txn |-> o.txn, crash |-> asserts /\ o.s # "OK",
         commit_s |-> IF o.op = "Commit" THEN o.s ELSE "none",
         prepared |-> FALSE, ended |-> EndedAs(o)] :
        o \in FinalizeOutcomes(txn, commit) } :
      commit \in BOOLEAN }

\* DoInsert without a transaction, after a loop that ended with s.ok():
\* the batch goes to db->Write
FinishDBOk(batch, unexpected_error) ==
    { [s |-> o.s, unexpected_error |-> unexpected_error \/ o.s # "OK",
       db |-> o.db, txn |-> NullTxn, crash |-> FALSE,
       commit_s |-> o.s, prepared |-> FALSE,
       ended |-> IF o.s = "OK" THEN "committed" ELSE "commit_failed"] :
      o \in DbWriteOutcomes(batch) }

\* after a loop that ended with a failure: assert(txn->Rollback().ok()), which
\* calls Rollback only where assert() is compiled in
FinishFailed(txn, s, unexpected_error, has_txn) ==
    IF has_txn /\ asserts
    THEN { [s |-> s, unexpected_error |-> unexpected_error, db |-> db,
            txn |-> r.txn, crash |-> r.s # "OK", commit_s |-> "none",
            prepared |-> FALSE, ended |-> "rolled_back_after_failure"] :
           r \in TxnRollbackOutcomes(txn) }
    ELSE { [s |-> s, unexpected_error |-> unexpected_error, db |-> db,
            txn |-> txn, crash |-> FALSE, commit_s |-> "none",
            prepared |-> FALSE, ended |-> "none"] }

\* the ways DoInsert can end
FinishOutcomes(t) ==
    LET c == g[t].loc
        kind == g[t].kind
        txn == IF kind = KindDB THEN NullTxn ELSE txns[t][HandleOf(kind)]
    IN  IF c.s # "OK" THEN FinishFailed(txn, c.s, c.unexpected_error, kind # KindDB)
        ELSE IF kind = KindDB THEN FinishDBOk(c.batch, c.unexpected_error)
        ELSE IF kind = KindTO THEN FinishTOOk(txn, c.unexpected_error)
        ELSE FinishTxnOk(txn, c.unexpected_error, kind = KindOpt)

\* a call that counts nothing (what a defect in the counting would do)
CountedOnlySuccess(s) == IF s = "OK" THEN "success" ELSE "none"

\* if (s.ok()) success_count_++; else failure_count_++;
Counted(s) == IF s = "OK" THEN "success" ELSE "failure"

\* a last status taken after the Rollback that follows a failure, whose
\* status has replaced the failure's
LastStatusOfRollback(e) ==
    IF e.ended = "rolled_back_after_failure" THEN "OK" ELSE e.s

\* last_status_ = s
LastStatus(e) == e.s

\* the counters, last_status_ and the return of DoInsert, then what the entry
\* point does after it: TransactionDBInsert resets read_options_.snapshot,
\* TOTransactionDBInsert deletes to_txn_
DoInsertFinish(t) ==
    LET c == g[t].loc
        kind == g[t].kind
        h == HandleOf(kind)
    IN
    /\ g[t].pc = "finish"
    /\ kind \in InsertKinds
    /\ \E e \in FinishOutcomes(t) :
         /\ db' = e.db
         /\ crashed' = IF e.crash THEN "assert" ELSE crashed
         /\ txns' = IF kind = KindDB THEN txns
                    ELSE IF kind = KindTO /\ ~e.crash
                    THEN [txns EXCEPT ![t][h] = NullTxn]
                    ELSE [txns EXCEPT ![t][h] = LeftOpen(e.txn)]
         /\ g' = [g EXCEPT ![t] =
              IF e.crash
              THEN [@ EXCEPT !.pc = "crashed",
                             !.hist = EndHistory(@, e)]
              ELSE [@ EXCEPT
                      !.pc = "idle",
                      !.loc = NoCall,
                      !.success_count_ = IF Counted(e.s) = "success" THEN @ + 1 ELSE @,
                      !.failure_count_ = IF Counted(e.s) = "failure" THEN @ + 1 ELSE @,
                      !.last_status_ = LastStatus(e),
                      !.ret = ~e.unexpected_error,
                      !.calls = @ + 1,
                      !.read_options_snapshot =
                          IF kind = KindTxn /\ c.take_snapshot THEN NoSnapshot ELSE @,
                      !.hist = EndHistory(@, e)]]
    /\ UNCHANGED <<keyed, asserts, faulty, txn_options, db_snapshots, v>>

----------------------------------------------------------------------------
(* TOTransactionDBWriteRandom and DoWriteRandom. *)

\* what gen.Generate(value_size_) hands to Put: bytes that are no counter
GeneratedValues == {Garbage}

\* The timestamps' statuses are only asserted. DoWriteRandom then begins by
\* constructing a RandomGenerator (line 261), whose constructor appends an
\* empty piece to data_ until data_ is long enough (lines 230-236): the loop
\* never ends and the call never returns.
TOTransactionDBWriteRandom(t) ==
    /\ g[t].pc = "idle"
    /\ g[t].calls < MaxCalls
    /\ \E cs \in TxnStatusOutcomes, rs \in TxnStatusOutcomes :
          /\ txns' = [txns EXCEPT ![t].to_txn_ = BeginTransaction(FALSE)]
          /\ IF asserts /\ (cs # "OK" \/ rs # "OK")
             THEN /\ crashed' = "assert"
                  /\ g' = [g EXCEPT ![t] = [@ EXCEPT !.pc = "crashed", !.kind = KindWR,
                                              !.hist = StartHistory]]
             ELSE /\ crashed' = crashed
                  /\ g' = [g EXCEPT ![t] = [@ EXCEPT !.pc = "hung", !.kind = KindWR,
                                              !.hist = StartHistory]]
    /\ UNCHANGED <<keyed, asserts, faulty, txn_options, db, db_snapshots, v>>

\* The body of DoWriteRandom after line 261, as its text reads. No call
\* reaches it, and it is part of no specification.

\* one iteration of DoWriteRandom's loop: a read, a delete or a put of the
\* key drawn (handles is taken empty: the default column family). The byte
\* budget of 15,000,000 is out of reach of at most 9999 operations.
DoWriteRandomStep(t) ==
    LET c == g[t].loc
        txn == txns[t].to_txn_
        set_i == Head(c.set_vec)
        rest == Tail(c.set_vec)
    IN
    /\ g[t].pc = "wr"
    /\ \E op \in {"read", "delete", "put"}, rand_key \in Keys, value \in GeneratedValues :
        LET key == FullKey(set_i, rand_key)
            outs ==
              IF op = "read"
              THEN { [s |-> IF o.s = "NotFound" THEN "OK" ELSE o.s, txn |-> o.txn] :
                       o \in TxnGetOutcomes(t, txn, g[t].read_options_snapshot,
                                            key, FALSE, FALSE) }
              ELSE TxnPutOutcomes(t, txn, key,
                                  IF op = "delete" THEN Tombstone ELSE value, FALSE)
        IN  \E o \in outs :
              /\ txns' = [txns EXCEPT ![t].to_txn_ = o.txn]
              /\ g' = [g EXCEPT ![t] =
                   [@ EXCEPT
                      !.pc = IF o.s # "OK" \/ rest = <<>> THEN "finish" ELSE "wr",
                      !.loc = IF o.s # "OK" \/ rest = <<>>
                              THEN AtFinish(c, o.s, FALSE)
                              ELSE AtNextSet(c, rest, FALSE),
                      !.hist = [@ EXCEPT
                                 !.written = IF op # "read" /\ o.s = "OK"
                                             THEN @ \cup {key} ELSE @,
                                 !.read_err = IF op = "read" THEN o.s ELSE @,
                                 !.put_err = IF op # "read" /\ o.s # "OK" THEN o.s ELSE @]]]
    /\ UNCHANGED <<keyed, asserts, faulty, txn_options, crashed, db, db_snapshots, v>>

\* the end of DoWriteRandom: Commit when the loop ended with s.ok(); then a
\* success is counted, or a failure, after which s becomes the status of
\* Rollback; last_status_ = s; TOTransactionDBWriteRandom deletes to_txn_
WriteRandomOutcomes(txn, s) ==
    UNION {
      { LET s1 == IF s = "OK" THEN o.s ELSE s
            commit_died == s = "OK" /\ asserts /\ o.s # "OK"
            txn1 == IF s = "OK" THEN o.txn ELSE txn
        IN  IF commit_died
            THEN [s |-> s1, counted |-> "none", db |-> o.db, txn |-> txn1,
                  crash |-> TRUE, commit_s |-> o.s, ended |-> "commit_failed",
                  prepared |-> FALSE, unexpected_error |-> FALSE]
            ELSE IF s1 = "OK"
            THEN [s |-> s1, counted |-> "success", db |-> o.db, txn |-> txn1,
                  crash |-> FALSE, commit_s |-> o.s, ended |-> "committed",
                  prepared |-> FALSE, unexpected_error |-> FALSE]
            ELSE [s |-> r.s, counted |-> "failure", db |-> db, txn |-> r.txn,
                  crash |-> asserts /\ r.s # "OK",
                  commit_s |-> IF s = "OK" THEN o.s ELSE "none",
                  ended |-> "rolled_back_after_failure",
                  prepared |-> FALSE, unexpected_error |-> TRUE] :
        r \in TxnRollbackOutcomes(IF s = "OK" THEN o.txn ELSE txn) } :
      o \in TxnCommitOutcomes(txn) }

DoWriteRandomFinish(t) ==
    /\ g[t].pc = "finish"
    /\ g[t].kind = KindWR
    /\ \E e \in WriteRandomOutcomes(txns[t].to_txn_, g[t].loc.s) :
         /\ db' = e.db
         /\ crashed' = IF e.crash THEN "assert" ELSE crashed
         /\ txns' = [txns EXCEPT ![t].to_txn_ = IF e.crash THEN LeftOpen(e.txn) ELSE NullTxn]
         /\ g' = [g EXCEPT ![t] =
              [@ EXCEPT
                 !.pc = IF e.crash THEN "crashed" ELSE "idle",
                 !.loc = IF e.crash THEN @ ELSE NoCall,
                 !.success_count_ = IF e.counted = "success" THEN @ + 1 ELSE @,
                 !.failure_count_ = IF e.counted = "failure" THEN @ + 1 ELSE @,
                 !.last_status_ = IF e.crash THEN @ ELSE e.s,
                 !.ret = IF e.crash THEN @ ELSE ~e.unexpected_error,
                 !.calls = IF e.crash THEN @ ELSE @ + 1,
                 !.hist = EndHistory(@, e)]]
    /\ UNCHANGED <<keyed, asserts, faulty, txn_options, db_snapshots, v>>

\* ~RandomTransactionInserter: the handles still held are deleted
Destroy(t) ==
    /\ g[t].pc = "idle"
    /\ g[t].calls > 0
    /\ g' = [g EXCEPT ![t] = [@ EXCEPT !.pc = "destroyed"]]
    /\ txns' = [txns EXCEPT ![t] = InitTxns]
    /\ UNCHANGED <<keyed, asserts, faulty, txn_options, crashed, db, db_snapshots, v>>

----------------------------------------------------------------------------
(* Verify. *)

InitVerify ==
    [pc |-> "idle", take_snapshot |-> FALSE, snapshot |-> NoSnapshot,
     num_keys_per_set |-> 0, rand |-> FALSE, set_vec |-> <<>>, set_i |-> 0,
     k |-> 0, total |-> 0, prev_total |-> 0, prev_i |-> 0,
     prev_assigned |-> FALSE, result |-> "none", runs |-> 0,
     iters |-> 0, path |-> "none", bad_seen |-> FALSE,
     num_sets |-> 0, totals |-> <<>>]

\* Verify has returned: its locals are gone; what is kept is what it was
\* called with and what it did (totals: the totals it compared, in order)
Returned(result, path, bad_seen, iters, totals) ==
    [InitVerify EXCEPT !.pc = "done", !.result = result,
                       !.take_snapshot = v.take_snapshot, !.runs = v.runs,
                       !.path = path, !.bad_seen = bad_seen, !.iters = iters,
                       !.num_sets = v.num_sets, !.totals = totals]

\* the smallest key of a non-empty set of keys
MinKey(keys) == CHOOSE k \in keys : \A x \in keys : x = k \/ KeyLess(k, x)

\* a scan that does not stop where the prefix ends
HasAnyPrefix(key, prefix_buf) == TRUE

\* key.ToString().compare(0, 4, prefix_buf) == 0
HasPrefix(key, prefix_buf) ==
    SubSeq(key, 1, IF Len(key) < 4 THEN Len(key) ELSE 4) = prefix_buf

\* the iterator's loop over the keys not yet visited: stop at the end or at
\* the first key of another prefix; a value that is 0 or the maximum ends
\* Verify with Corruption; "throw" when std::stoull throws
RECURSIVE ScanLoop(_, _, _, _)
ScanLoop(view, keys, prefix_buf, total) ==
    IF keys = {} THEN [s |-> "OK", total |-> total]
    ELSE LET key == MinKey(keys)
             int_value == Stoull(view[key])
         IN  IF ~HasPrefix(key, prefix_buf) THEN [s |-> "OK", total |-> total]
             ELSE IF int_value = -1 THEN [s |-> "throw", total |-> total]
             ELSE IF IsInvalidValue(int_value)
             THEN [s |-> "Corruption", total |-> total]
             ELSE ScanLoop(view, keys \ {key}, prefix_buf, Add64(total, int_value))

\* iter->Seek(Slice(prefix_buf, 4)) and the loop that follows
Scan(view, prefix_buf) ==
    LET target == SubSeq(prefix_buf, 1, 4)
    IN  ScanLoop(view, {key \in DOMAIN view : ~KeyLess(key, target)}, prefix_buf, 0)

\* read options that never carry the snapshot
VerifyRoptionsLatest(take_snapshot) == NoSnapshot

\* if (take_snapshot) roptions.snapshot = db->GetSnapshot()
VerifyRoptions(take_snapshot) ==
    IF take_snapshot THEN SnapshotOf(db) ELSE NoSnapshot

\* the prologue of Verify: the snapshot, the shuffled sets; without a set the
\* loop is not entered, the snapshot is released and Verify returns OK
VerifyBegin(num_sets, take_snapshot, num_keys_per_set, rand) ==
    /\ v.pc \in {"idle", "done"}
    /\ v.runs < MaxVerify
    /\ IF num_sets = 0
       THEN /\ v' = [InitVerify EXCEPT
                       !.pc = "done", !.result = "OK",
                       !.take_snapshot = take_snapshot,
                       !.runs = v.runs + 1, !.iters = v.iters]
            /\ db_snapshots' = db_snapshots
       ELSE /\ \E set_vec \in Perms(num_sets) :
                 v' = [InitVerify EXCEPT
                         !.pc = "set", !.take_snapshot = take_snapshot,
                         !.snapshot = VerifyRoptions(take_snapshot),
                         !.num_keys_per_set = num_keys_per_set, !.rand = rand,
                         !.set_vec = set_vec, !.runs = v.runs + 1,
                         !.iters = v.iters, !.num_sets = num_sets]
            /\ db_snapshots' = IF take_snapshot THEN db_snapshots + 1
                               ELSE db_snapshots
    /\ UNCHANGED <<keyed, asserts, faulty, txn_options, crashed, db, g, txns>>

\* the next set: by point lookups (1 in 10, with keys and a generator given),
\* else by an iterator, whose scan is one read of its view
VerifySet ==
    /\ v.pc = "set"
    /\ \E one_in_10 \in BOOLEAN :
         LET set_i == Head(v.set_vec)
             point == v.num_keys_per_set # 0 /\ v.rand /\ one_in_10
             r == Scan(ReadView(v.snapshot), Prefix(set_i))
         IN  IF point
             THEN /\ v' = [v EXCEPT !.pc = "lookup", !.set_i = set_i, !.k = 0,
                                    !.total = 0, !.path = "point"]
                  /\ crashed' = crashed
             ELSE /\ v' = IF r.s = "Corruption"
                          THEN Returned("Corruption", "iter", TRUE, v.iters + 1, v.totals)
                          ELSE [v EXCEPT
                                  !.pc = IF r.s = "throw" THEN "crashed" ELSE "compare",
                                  !.set_i = set_i, !.total = r.total, !.path = "iter",
                                  !.iters = IF r.s = "throw" THEN @ + 1 ELSE @]
                  /\ crashed' = IF r.s = "throw" THEN "exception" ELSE crashed
    /\ UNCHANGED <<keyed, asserts, faulty, txn_options, db, db_snapshots, g, txns>>

\* one point lookup: DBGet without a transaction, with Verify's roptions;
\* its status and unexpected_error are only asserted
VerifyLookup ==
    /\ v.pc = "lookup"
    /\ v.k < v.num_keys_per_set
    /\ \E o \in DbGetOutcomes(v.snapshot, FullKey(v.set_i, v.k)) :
         LET r == DBGet(o, 0, FALSE)
             died == asserts /\ (r.s # "OK" \/ r.unexpected_error)
         IN  /\ v' = [v EXCEPT
                        !.pc = IF r.threw \/ died THEN "crashed"
                               ELSE IF v.k + 1 = v.num_keys_per_set THEN "compare"
                               ELSE "lookup",
                        !.k = @ + 1,
                        !.total = Add64(@, r.int_value),
                        !.bad_seen = @ \/ r.s = "Corruption"]
             /\ crashed' = IF r.threw THEN "exception"
                           ELSE IF died THEN "assert" ELSE crashed
    /\ UNCHANGED <<keyed, asserts, faulty, txn_options, db, db_snapshots, g, txns>>

\* a comparison that takes the first set visited to have a set before it
MismatchWithoutFirst(prev_assigned, total, prev_total) == total # prev_total

\* if (prev_assigned && total != prev_total)
Mismatch(prev_assigned, total, prev_total) ==
    prev_assigned /\ total # prev_total

\* the set's total against the total of the set visited before it; after
\* the last set the snapshot is released and Verify returns OK
VerifyCompare ==
    LET rest == Tail(v.set_vec)
    IN
    /\ v.pc = "compare"
    /\ IF Mismatch(v.prev_assigned, v.total, v.prev_total)
       THEN /\ v' = Returned("Corruption", v.path, v.bad_seen, v.iters,
                                 Append(v.totals, v.total))
            /\ db_snapshots' = db_snapshots
       ELSE /\ v' = IF rest = <<>>
                    THEN Returned("OK", v.path, v.bad_seen, v.iters,
                                  Append(v.totals, v.total))
                    ELSE [v EXCEPT !.pc = "set", !.set_vec = rest,
                                   !.prev_total = v.total, !.prev_i = v.set_i,
                                   !.prev_assigned = TRUE,
                                   !.totals = Append(@, v.total)]
            /\ db_snapshots' = IF rest = <<>> /\ v.take_snapshot
                               THEN db_snapshots - 1 ELSE db_snapshots
    /\ UNCHANGED <<keyed, asserts, faulty, txn_options, crashed, db, g, txns>>

----------------------------------------------------------------------------
(* The environment: a value forced to 0 or to the maximum from outside. *)

AllKeys == {FullKey(set_i, ikey) : set_i \in Sets, ikey \in Keys}

\* the texts std::stoull reads as 0 or as the maximum: their decimals, and a
\* spelling of each with white space or a sign
InvalidTexts ==
    {ToString(0), ToString(ULONG_MAX), <<" ", "", "+", "0">>, <<"-", "1">>}

HasInvalid(f) == \E key \in DOMAIN f : f[key] \in InvalidTexts

Corrupt ==
    /\ ~HasInvalid(db)
    /\ \E key \in AllKeys, text \in InvalidTexts : db' = PutKV(db, key, text)
    /\ UNCHANGED <<keyed, asserts, faulty, txn_options, crashed, db_snapshots, g, txns, v>>

----------------------------------------------------------------------------
(* Specifications. *)

\* the thread of the specifications with one generator
Main == "g1"

\* the state after construction: either build; the backend with or without
\* faults; the caller's TransactionOptions
InitWith(faults, set_snapshots) ==
    /\ asserts \in BOOLEAN
    /\ faulty = faults
    /\ txn_options \in [set_snapshot : set_snapshots]
    /\ crashed = "no"
    /\ db = EmptyMap
    /\ db_snapshots = 0
    /\ g = [t \in Gens |-> InitGen]
    /\ txns = [t \in Gens |-> InitTxns]
    /\ v = InitVerify
    /\ keyed = <<>>

Quiescent == \A t \in Gens : g[t].pc \in {"idle", "destroyed"}

\* the steps of a call in progress
GenStep(t) ==
    \/ DoInsertGet(t)
    \/ DoInsertPut(t)
    \/ DoInsertFinish(t)

InsertCall(t) ==
    \/ DBInsert(t)
    \/ TransactionDBInsert(t)
    \/ OptimisticTransactionDBInsert(t)
    \/ TOTransactionDBInsert(t)

VerifyStep ==
    \/ VerifySet
    \/ VerifyLookup
    \/ VerifyCompare

\* Spec: one inserter, its calls one after the other, against a backend whose
\* operations may fail with any status
Next ==
    /\ crashed = "no"
    /\ \/ InsertCall(Main)
       \/ TOTransactionDBWriteRandom(Main)
       \/ TransactionDBSetSnapshot(Main)
       \/ GenStep(Main)
       \/ Destroy(Main)

Init == InitWith(TRUE, {FALSE})

Spec == Init /\ [][Next]_vars

\* SpecOK: one inserter, its calls one after the other, against a backend
\* whose operations all return OK; Verify after the calls, with the
\* inserter's number of keys (or 0: iterators only)
NextOK ==
    /\ crashed = "no"
    /\ \/ v.pc = "idle" /\ InsertCall(Main)
       \/ TransactionDBSetSnapshot(Main)
       \/ GenStep(Main)
       \/ /\ Quiescent
          /\ \E take_snapshot \in BOOLEAN, n \in {0, NumKeys}, rand \in BOOLEAN :
                VerifyBegin(NumSets, take_snapshot, n, rand)
       \/ VerifyStep

InitOK == InitWith(FALSE, {FALSE})

SpecOK == InitOK /\ [][NextOK]_vars

\* SpecVerify: Verify, with any arguments, of a key space that no one writes
\* to meanwhile: the one the inserter's calls left, with or without a value
\* forced to 0 or the maximum
NextVerify ==
    /\ crashed = "no"
    /\ \/ v.pc = "idle" /\ g[Main].calls < MaxConcCalls /\ InsertCall(Main)
       \/ TransactionDBSetSnapshot(Main)
       \/ GenStep(Main)
       \/ Quiescent /\ v.pc = "idle" /\ Corrupt
       \/ /\ Quiescent
          /\ \E num_sets \in 0..NumSets, take_snapshot \in BOOLEAN,
                n \in 0..NumKeys, rand \in BOOLEAN :
                VerifyBegin(num_sets, take_snapshot, n, rand)
       \/ VerifyStep

SpecVerify == InitOK /\ [][NextVerify]_vars

\* SpecConc: the generators run TransactionDBInsert concurrently on a
\* pessimistic backend
NextConc ==
    /\ crashed = "no"
    /\ \E t \in Gens :
         \/ g[t].calls < MaxConcCalls /\ TransactionDBInsert(t)
         \/ TransactionDBSetSnapshot(t)
         \/ GenStep(t)

InitConc == InitWith(FALSE, BOOLEAN)

SpecConc == InitConc /\ [][NextConc]_vars

\* SpecSnap: Verify runs while one inserter's transactions commit
NextSnap ==
    /\ crashed = "no"
    /\ \/ g[Main].calls < MaxConcCalls /\ InsertCall(Main)
       \/ TransactionDBSetSnapshot(Main)
       \/ GenStep(Main)
       \/ \E take_snapshot \in BOOLEAN, n \in {0, NumKeys}, rand \in BOOLEAN :
             VerifyBegin(NumSets, take_snapshot, n, rand)
       \/ VerifyStep

SpecSnap == InitOK /\ [][NextSnap]_vars

\* the largest set number the 4 digits hold: assert(set_i + 1 <= 9999)
MaxPrefixed == 9999

\* the sets and keys the key construction is tried on: around each change in
\* the number of digits, up to the last set the assertion admits
KeySets == {0, 8, 9, 10, 98, 99, 998, 999, MaxPrefixed - 2, MaxPrefixed - 1}
KeyNums == {0, 1, 9, 10, 11, 99, 100}

\* the calls of DBGet whose keys are kept
MaxKeyed == 2

\* the first lines of DBGet: prefix_buf, skey, *full_key
DBGetKey(set_i, ikey) ==
    /\ Len(keyed) < MaxKeyed
    /\ keyed' = Append(keyed, [set_i |-> set_i, ikey |-> ikey,
                               prefix_buf |-> Prefix(set_i),
                               full_key |-> FullKey(set_i, ikey)])
    /\ UNCHANGED <<asserts, faulty, txn_options, crashed, db, db_snapshots, g, txns, v>>

\* SpecKey: DBGet builds the keys of any two pairs of a set and a key
NextKey == \E set_i \in KeySets, ikey \in KeyNums : DBGetKey(set_i, ikey)

SpecKey == InitOK /\ [][NextKey]_vars

\* the key space after x calls with incr = 1 that all drew key 0: every set
\* holds x under its key 0 (x = 0: nothing written yet)
StoreOf(x) ==
    IF x = 0 THEN EmptyMap
    ELSE [key \in {FullKey(set_i, 0) : set_i \in Sets} |-> ToString(x)]

\* SpecWrap: one inserter's calls, one after the other and without faults, on
\* a key space that earlier calls have filled with any value they can write
InitWrap ==
    /\ asserts \in BOOLEAN
    /\ faulty = FALSE
    /\ txn_options \in [set_snapshot : {FALSE}]
    /\ crashed = "no"
    /\ \E x \in 0..(ULONG_MAX - 1) : db = StoreOf(x)
    /\ db_snapshots = 0
    /\ g = [t \in Gens |-> InitGen]
    /\ txns = [t \in Gens |-> InitTxns]
    /\ v = InitVerify
    /\ keyed = <<>>

NextWrap ==
    /\ crashed = "no"
    /\ \/ InsertCall(Main)
       \/ TransactionDBSetSnapshot(Main)
       \/ GenStep(Main)

SpecWrap == InitWrap /\ [][NextWrap]_vars

\* SpecBatch: the generators run DBInsert concurrently: reads by db->Get, the
\* puts of a call in one batch that db->Write applies at once
NextBatch ==
    /\ crashed = "no"
    /\ \E t \in Gens :
         \/ g[t].calls < MaxConcCalls /\ DBInsert(t)
         \/ GenStep(t)

SpecBatch == InitOK /\ [][NextBatch]_vars

----------------------------------------------------------------------------
(* Properties. *)

\* the keys of a key space under a set's prefix
SetKeys(f, set_i) == {key \in DOMAIN f : HasPrefix(key, Prefix(set_i))}

RECURSIVE SumOver(_, _)
SumOver(f, keys) ==
    IF keys = {} THEN 0
    ELSE LET key == CHOOSE x \in keys : TRUE
         IN  Add64(Stoull(f[key]), SumOver(f, keys \ {key}))

\* the sum of the values stored under a set's prefix
SetSum(f, set_i) == SumOver(f, SetKeys(f, set_i))

SumsEqual(f) == \A i, j \in Sets : SetSum(f, i) = SetSum(f, j)

\* the value of a key in a key space, <<>> when it is absent
ValueAt(f, key) == IF key \in DOMAIN f THEN f[key] ELSE <<>>

NoTxnOpen == \A t \in Gens : ~txns[t].txn_.open

\* C1: from an empty key space, after the inserter's calls run one at a time
\* against a backend whose operations all return OK, every set has the same
\* sum of stored values and Verify returns OK, whether the calls ended in
\* Commit or in the deliberate Rollback.
C1_SequentialCallsKeepSumsEqual ==
    /\ Quiescent => SumsEqual(db)
    /\ v.pc = "done" => v.result = "OK"

\* Verify has returned OK after two calls, the first committed, the last
\* ended by the deliberate Rollback
C1_Witness ==
    /\ v.pc = "done" /\ v.result = "OK"
    /\ g[Main].calls = MaxCalls
    /\ g[Main].hist.ended = "rolled_back"
    /\ db # EmptyMap

\* C2: whenever no transaction of the concurrent TransactionDBInsert calls is
\* open, the sums of the stored values are equal across all sets.
C2_NoIncrementLost == (Quiescent /\ NoTxnOpen) => SumsEqual(db)

\* both inserters' transactions have committed and one set has lost an increment
C2_LostIncrement ==
    /\ \A t \in Gens : g[t].pc = "idle" /\ g[t].hist.ended = "committed"
    /\ NoTxnOpen
    /\ ~SumsEqual(db)

\* C3: Verify called with take_snapshot = true, while the inserter's
\* transactions commit, computes each set's total from the snapshot taken at
\* its start, on either path, and returns OK.
C3_VerifyReadsItsSnapshot ==
    /\ (v.take_snapshot /\ v.pc = "done") => v.result = "OK"
    /\ (v.take_snapshot /\ v.pc = "compare") =>
          /\ v.snapshot # NoSnapshot
          /\ v.total = SetSum(v.snapshot[1], v.set_i)

\* Verify, one set behind it, compares the next set's total after a
\* transaction committed since the snapshot was taken
C3_Witness ==
    /\ v.take_snapshot /\ v.pc = "compare" /\ v.prev_assigned
    /\ v.snapshot # NoSnapshot
    /\ v.snapshot[1] # db

\* C4: once Verify has read a value that is 0 or the maximum, on the
\* iterator path or by a point lookup, it has returned Corruption.
C4_InvalidValueEndsVerify ==
    v.bad_seen => (v.pc = "done" /\ v.result = "Corruption")

\* a point lookup has read an invalid value and Verify goes on to compare totals
C4_LookupGoesOn == v.bad_seen /\ v.path = "point" /\ v.pc = "compare"

\* the inserter's call has returned (the inserter may have been destroyed since)
Returns(t) == g[t].calls > 0 /\ g[t].pc \in {"idle", "destroyed"}

\* the call on t, of this kind, is at its end: returned, or died in an assertion
AtEnd(t, kind) == g[t].kind = kind /\ g[t].pc \in {"idle", "destroyed", "crashed"}

\* C5: a TransactionDBInsert whose reads and writes all succeeded and whose
\* Commit failed returns; with Expired it has counted a failure and returns
\* true, with any other status it returns false.
C5_PessimisticCommitFailure ==
    LET c == g[Main]
    IN  (/\ AtEnd(Main, KindTxn)
         /\ c.hist.read_err = "OK" /\ c.hist.put_err = "OK"
         /\ c.hist.commit_s \notin {"none", "OK"})
        => /\ Returns(Main)
           /\ c.last_status_ = c.hist.commit_s
           /\ c.failure_count_ > 0
           /\ c.ret = (c.hist.commit_s = "Expired")

\* Commit returned Expired and the call died in the assertion that follows it
C5_DiesOnExpired ==
    /\ g[Main].kind = KindTxn /\ g[Main].pc = "crashed"
    /\ g[Main].hist.read_err = "OK" /\ g[Main].hist.put_err = "OK"
    /\ g[Main].hist.commit_s = "Expired"

\* C6: an OptimisticTransactionDBInsert that has returned true met no non-OK
\* status from a read or from a Put, and from Commit at most a conflict.
C6_OptimisticOnlyCommitConflict ==
    LET c == g[Main]
    IN  (Returns(Main) /\ c.kind = KindOpt /\ c.ret)
        => /\ c.hist.read_err = "OK"
           /\ c.hist.put_err = "OK"
           /\ c.hist.commit_s \in {"none", "OK"} \/ IsConflict(c.hist.commit_s)

\* a Put after a plain Get returned Busy and the call returned true
C6_PutConflictAbsorbed ==
    /\ Returns(Main) /\ g[Main].kind = KindOpt /\ g[Main].ret
    /\ g[Main].hist.put_err = "Busy" /\ ~g[Main].hist.put_gfu

\* C7: after a call whose transaction did not commit has returned, every key
\* it Put holds the value it had before the transaction began.
C7_UncommittedWritesInvisible ==
    \A t \in Gens :
        (Returns(t) /\ g[t].hist.ended # "committed")
        => \A key \in g[t].hist.written :
              ValueAt(db, key) = ValueAt(g[t].hist.pre, key)

\* a transaction that Put a key was left without Commit or Rollback and its
\* handle has been destroyed
C7_Witness ==
    /\ g[Main].pc = "destroyed"
    /\ g[Main].kind = KindTxn
    /\ g[Main].hist.ended = "none"
    /\ g[Main].hist.written # {}

\* C8 as stated: with only valid values stored and no writer, the total of a
\* set that Verify computes by point lookups over keys 0..num_keys_per_set-1
\* equals the total of the iterator's scan of the set's prefix.
C8_LookupsEqualScan ==
    (/\ v.pc = "compare" /\ v.path = "point"
     /\ ~HasInvalid(ReadView(v.snapshot)))
    => v.total = Scan(ReadView(v.snapshot), Prefix(v.set_i)).total

\* C8, amended: the two totals are equal when num_keys_per_set is at least
\* the number of keys per set the inserter draws its keys from.
C8_LookupsEqualScanOverAllKeys ==
    (/\ v.pc = "compare" /\ v.path = "point"
     /\ ~HasInvalid(ReadView(v.snapshot))
     /\ v.num_keys_per_set >= NumKeys)
    => v.total = Scan(ReadView(v.snapshot), Prefix(v.set_i)).total

\* point lookups over all the keys have summed a set that holds a value
C8_Witness ==
    /\ v.pc = "compare" /\ v.path = "point"
    /\ ~HasInvalid(ReadView(v.snapshot))
    /\ v.num_keys_per_set >= NumKeys
    /\ v.total > 0

\* C9: in a process that has not died, the two counters add up to the
\* number of calls that have returned.
C9_CountersAddUp ==
    \A t \in Gens :
        g[t].pc # "crashed"
        => g[t].success_count_ + g[t].failure_count_ = g[t].calls

\* two calls have returned, one counted as a success and one as a failure,
\* the last of them on the timestamp-ordered path
C9_Witness ==
    /\ g[Main].calls = MaxCalls
    /\ g[Main].pc = "idle"
    /\ g[Main].kind = KindTO
    /\ g[Main].success_count_ > 0 /\ g[Main].failure_count_ > 0

\* C10: when Verify has returned no snapshot it took is still held, and an
\* inserter between calls holds none in its read options.
C10_SnapshotsReleased ==
    /\ v.pc = "done" => db_snapshots = 0
    /\ \A t \in Gens : g[t].pc = "idle" => g[t].read_options_snapshot = NoSnapshot

\* Verify has returned Corruption and its snapshot is still held
C10_SnapshotLeaked ==
    v.pc = "done" /\ v.result = "Corruption" /\ v.take_snapshot /\ db_snapshots > 0

\* the number a text of digits spells
RECURSIVE DecimalOf(_)
DecimalOf(text) ==
    IF Len(text) = 0 THEN 0
    ELSE DecimalOf(SubSeq(text, 1, Len(text) - 1)) * 10 + DigitVal(text[Len(text)])

AllDigits(text) == \A i \in 1..Len(text) : IsDigit(text[i])

\* C11: the physical key of (set, key) is 4 digits that spell set + 1
\* followed by the decimal of key; of two keys built, each matches the prefix
\* of the other's set exactly when the sets are the same, and keys of
\* different sets differ.
C11_KeysOfSetsDisjoint ==
    \A i, j \in 1..Len(keyed) :
        LET a == keyed[i]
            b == keyed[j]
        IN  /\ Len(a.prefix_buf) = 4 /\ AllDigits(a.full_key)
            /\ DecimalOf(SubSeq(a.full_key, 1, 4)) = a.set_i + 1
            /\ DecimalOf(SubSeq(a.full_key, 5, Len(a.full_key))) = a.ikey
            /\ HasPrefix(a.full_key, b.prefix_buf) <=> (a.set_i = b.set_i)
            /\ (a.set_i # b.set_i) => (a.full_key # b.full_key)

\* the keys of set 0, key 11 and of set 10, key 1, whose digits without
\* padding would read the same
C11_Witness ==
    /\ Len(keyed) = 2
    /\ keyed[1].set_i = 0 /\ keyed[1].ikey = 11
    /\ keyed[2].set_i = 10 /\ keyed[2].ikey = 1

AllEqual(totals) == \A i, j \in 1..Len(totals) : totals[i] = totals[j]

\* C12: on a store of valid values Verify returns OK or Corruption; OK
\* exactly when it has totalled every set and the totals are all equal,
\* Corruption exactly when the total of the set visited last differs from the
\* total of the set visited before it, the earlier ones being equal; with at
\* most one set it returns OK.
C12_VerifyOKIffTotalsEqual ==
    (v.pc = "done" /\ ~HasInvalid(db)) =>
        LET n == Len(v.totals)
        IN  /\ v.result \in {"OK", "Corruption"}
            /\ v.result = "OK" <=> (n = v.num_sets /\ AllEqual(v.totals))
            /\ v.result = "Corruption" <=>
                  /\ n >= 2
                  /\ v.totals[n] # v.totals[n - 1]
                  /\ AllEqual(SubSeq(v.totals, 1, n - 1))
            /\ v.num_sets <= 1 => v.result = "OK"

\* Verify has returned Corruption for two totals of valid values that differ
C12_Witness ==
    /\ v.pc = "done" /\ ~HasInvalid(db)
    /\ v.result = "Corruption"
    /\ Len(v.totals) = NumSets

\* the kinds of call that work on a transaction
TxnKinds == {KindTxn, KindOpt, KindTO}

\* C13: while DoInsert's loop over the sets goes on (a Get or a Put is about
\* to be issued), unexpected_error is not set.
C13_LoopLeftOnUnexpectedError ==
    \A t \in Gens :
        (g[t].kind \in InsertKinds /\ g[t].pc \in {"get", "put"})
        => ~g[t].loc.unexpected_error

\* after a Put failed unexpectedly, the Get of the next set has been issued
\* and its Put is about to be
C13_LoopGoesOn ==
    /\ g[Main].kind = KindTxn /\ g[Main].pc = "put"
    /\ g[Main].loc.unexpected_error
    /\ g[Main].hist.put_err # "OK"

\* C14: a call on a transaction one of whose reads or Puts returned a non-OK
\* status has, at its end, called neither Prepare nor Commit and has ended
\* the transaction by Rollback.
C14_NoCommitAfterFailure ==
    \A t \in Gens :
        (/\ g[t].kind \in TxnKinds
         /\ g[t].pc \in {"idle", "destroyed", "crashed"}
         /\ g[t].hist.read_err # "OK" \/ g[t].hist.put_err # "OK")
        => /\ g[t].hist.commit_s = "none"
           /\ ~g[t].hist.prepared
           /\ g[t].hist.ended = "rolled_back_after_failure"

\* a transaction one of whose Puts failed has been committed
C14_CommittedAfterFailedPut ==
    /\ g[Main].kind \in TxnKinds /\ g[Main].pc = "idle"
    /\ g[Main].hist.put_err # "OK"
    /\ g[Main].hist.ended = "committed"

\* the one call made so far has returned
FirstReturned(t) == Returns(t) /\ g[t].calls = 1

\* C15: a first call whose transaction was ended by Rollback has counted one
\* failure and no success; after the deliberate Rollback of a transaction
\* whose reads and writes succeeded it has returned true.
C15_RollbackCountsFailure ==
    \A t \in Gens :
        (/\ FirstReturned(t) /\ g[t].kind \in TxnKinds
         /\ g[t].hist.ended \in {"rolled_back", "rolled_back_after_failure"})
        => /\ g[t].failure_count_ = 1 /\ g[t].success_count_ = 0
           /\ (/\ g[t].hist.ended = "rolled_back"
               /\ g[t].hist.read_err = "OK" /\ g[t].hist.put_err = "OK") => g[t].ret

\* the deliberate Rollback has been counted as a success
C15_RollbackCountedSuccess ==
    /\ FirstReturned(Main) /\ g[Main].kind = KindTxn
    /\ g[Main].hist.ended = "rolled_back"
    /\ g[Main].success_count_ = 1 /\ g[Main].failure_count_ = 0

\* C16: a TransactionDBInsert whose reads succeeded and of whose Puts one
\* failed, with a conflict status, returns true exactly when the read before
\* that Put was a plain Get; when the read was a GetForUpdate, a failed Put
\* of any status makes it return false.
C16_PutConflictAbsorbedIffPlainGet ==
    LET c == g[Main]
    IN  (/\ Returns(Main) /\ c.kind = KindTxn
         /\ c.hist.read_err = "OK" /\ c.hist.put_errs = 1)
        => /\ IsConflict(c.hist.put_err) => (c.ret <=> ~c.hist.put_gfu)
           /\ c.hist.put_gfu => ~c.ret

\* a Put after a plain Get returned TryAgain and the call returned false
C16_TryAgainNotAbsorbed ==
    /\ Returns(Main) /\ g[Main].kind = KindTxn
    /\ g[Main].hist.read_err = "OK" /\ g[Main].hist.put_errs = 1
    /\ g[Main].hist.put_err = "TryAgain" /\ ~g[Main].hist.put_gfu
    /\ ~g[Main].ret

\* C17: a first TOTransactionDBInsert whose reads and writes all succeeded
\* and whose Commit failed returns, having counted a failure; it returns true
\* exactly when the status of Commit is a conflict.
C17_TOCommitFailure ==
    LET c == g[Main]
    IN  (/\ AtEnd(Main, KindTO) /\ c.calls <= 1
         /\ c.hist.read_err = "OK" /\ c.hist.put_err = "OK"
         /\ c.hist.commit_s \notin {"none", "OK"})
        => /\ FirstReturned(Main)
           /\ c.failure_count_ = 1 /\ c.success_count_ = 0
           /\ c.ret <=> IsConflict(c.hist.commit_s)

\* Commit returned a status that is no conflict and the call returned true
C17_CommitErrorAbsorbed ==
    /\ FirstReturned(Main) /\ g[Main].kind = KindTO
    /\ g[Main].hist.read_err = "OK" /\ g[Main].hist.put_err = "OK"
    /\ g[Main].hist.commit_s = "IOError"
    /\ g[Main].ret

\* C18: every value the generator stores is strictly positive and below the
\* maximum, the addition being modulo 2^w, so no read of a call classifies a
\* value the generator wrote as Corruption
C18_StoredValuesValid ==
    /\ \A key \in DOMAIN db : ~IsInvalidValue(Stoull(db[key]))
    /\ g[Main].hist.read_err # "Corruption"

\* a call has committed a sum that wrapped to 0 or reached the maximum
C18_StoredInvalid ==
    /\ Returns(Main) /\ g[Main].ret /\ g[Main].success_count_ > 0
    /\ \E key \in DOMAIN db : IsInvalidValue(Stoull(db[key]))

\* C19: once a call has returned, last_status_ is OK exactly when the call
\* incremented success_count_, and when it incremented failure_count_,
\* last_status_ is the non-OK status that failed it (DoInsert, either
\* overload; no call of DoWriteRandom returns)
C19_LastStatusMatchesCounters ==
    \A t \in Gens :
        FirstReturned(t)
        => /\ (g[t].last_status_ = "OK") <=> (g[t].success_count_ = 1)
           /\ (g[t].failure_count_ = 1) => (g[t].last_status_ # "OK")

\* a call whose read failed has rolled back with OK, counted a failure and
\* left the read's status in last_status_
C19_FailureKeepsItsStatus ==
    /\ FirstReturned(Main) /\ g[Main].kind = KindTxn
    /\ g[Main].hist.ended = "rolled_back_after_failure"
    /\ g[Main].hist.read_err # "OK"
    /\ g[Main].failure_count_ = 1 /\ g[Main].success_count_ = 0
    /\ g[Main].last_status_ = g[Main].hist.read_err

\* C20: when Verify has returned, by whichever exit, every iterator it
\* created has been deleted, and never is more than one of them live
C20_IteratorsDeleted ==
    /\ v.pc = "done" => v.iters = 0
    /\ v.iters <= 1

\* Verify has returned Corruption from inside the scan and its iterator was
\* never deleted
C20_IteratorLeaked ==
    /\ v.pc = "done" /\ v.result = "Corruption" /\ v.path = "iter"
    /\ v.iters = 1

\* C21: once every one of the concurrent DBInsert calls has returned, the
\* sums of the stored values are equal across all sets.
C21_BatchSumsEqual == Quiescent => SumsEqual(db)

\* every generator's DBInsert has written its batch and returned true, and
\* the sets' sums differ
C21_BatchIncrementLost ==
    /\ \A t \in Gens :
          /\ g[t].pc = "idle" /\ g[t].kind = KindDB
          /\ g[t].ret /\ g[t].success_count_ = 1
    /\ ~SumsEqual(db)

====
